---- MODULE Spec2Model ----
(***************************************************************************)
(* Verification model of experiments/20news/methods_20news.py: the class   *)
(* Methods (one-hot label encoding in __init__, the SSNMF evaluation       *)
(* method, the trial orchestrator run_analysis and median_results).        *)
(*                                                                         *)
(* Specifications:                                                         *)
(*   Spec        run_analysis: trials, result dictionaries, checkpoints,   *)
(*               summary, median_results                                   *)
(*   SpecMedian  the median-trial selection argsort(acc)[len(acc)//2]      *)
(*   SpecInit    Methods.__init__: one-hot encoding of the label vectors   *)
(*   SpecSSNMF   calls of Methods.SSNMF on one object: hyperparameter      *)
(*               resolution, search, final evaluation                      *)
(*   FairSpecFit the fit of the final evaluation: initialization,          *)
(*               multiplicative updates, stopping rule, returned values    *)
(*   SpecPredict the predicted labels and the test accuracy of SSNMF       *)
(*                                                                         *)
(* The classes Evaluation and SSNMF of the ssnmf package are not part of   *)
(* methods_20news.py; what they do is taken from the specification of the  *)
(* joint factorization evaluator (hyperparameter validation, local search, *)
(* fit loop, error taxonomy).                                              *)
(***************************************************************************)
EXTENDS Integers, Sequences, FiniteSets, TLC

VARIABLES
    \* ---- run_analysis ----
    pc,           \* position in run_analysis
    iterations,   \* argument `iterations`
    j,            \* loop variable of "for j in range(iterations)"
    i,            \* loop variable of "for i in range(3,7)"
    rng,          \* state of the global random generator the methods draw from
    ninv,         \* number of method invocations made so far
    acc_dict, A_dict, B_dict, S_dict, S_test_dict, Yhat_dict, iter_dict,
    median_dict,  \* median_dict of run_analysis (NoValue until computed)
    disk,         \* the pickle files written so far
    failure,      \* the invocation that raised, or NoValue
    returned,     \* TRUE once run_analysis has returned its dictionaries
    report,       \* what median_results has read, or NoValue
    \* ---- median selection on its own ----
    m_acc,        \* an accuracy list
    m_idx,        \* the index selected for it, or NoIndex
    \* ---- Methods.__init__ ----
    train_labels, val_labels, test_labels, train_labels_full,
    y_train, y_val, y_test, y_train_full,
    built,        \* TRUE once __init__ has run
    \* ---- Methods.SSNMF ----
    s_pc,         \* position in SSNMF: idle, search, fit, evaluated, returned, raised
    args,         \* arguments of the call in progress (or of the last call)
    opt,          \* self.opt_ka, self.opt_lamb, self.opt_itas (NoValue: unset)
    prev_opt,     \* opt as the call in progress found it
    search_call,  \* the Evaluation built for the search and the search's arguments
    searched,     \* what iterativeLocalSearch returned in this call (<<>>: nothing)
    fit_call,     \* the Evaluation built for the final fit
    work,         \* model fits begun in this call
    error,        \* the exception that left SSNMF ("none": none)
    s_ret,        \* what SSNMF returned
    search_seed,  \* the randomness of the search of this call
    splits,       \* the data attributes of the object: self.X_train, ...
    \* ---- the fit inside the final evaluation ----
    f_pc,         \* built, loop, fitted, returned, raised
    f_cfg,        \* data and hyperparameters of the Evaluation
    model_A, model_B, model_S,   \* eval_module.model.A, .B, .S
    f_obj0,       \* objective of the initial factors
    train_evals,  \* error trajectories: total, data, label, accuracy
    ssnmf_iter,   \* line 217
    f_error,      \* the exception that left the fit ("none": none)
    f_ret,        \* the factors SSNMF returns
    \* ---- prediction on the test set ----
    p_pc,         \* fitted, predicted
    p_B,          \* eval_module.model.B
    S_test,       \* eval_module.S_test
    Y_predicted,  \* line 222
    ssnmf_predicted,  \* line 223
    ssnmf_acc     \* test_evals[-1], a fraction [num, den]

runVars == <<pc, iterations, j, i, rng, ninv, acc_dict, A_dict, B_dict, S_dict,
             S_test_dict, Yhat_dict, iter_dict, median_dict, disk, failure,
             returned, report>>
medVars == <<m_acc, m_idx>>
labelVars == <<train_labels, val_labels, test_labels, train_labels_full,
               y_train, y_val, y_test, y_train_full, built>>
dataVars == <<splits>>
callVars == <<s_pc, args, opt, prev_opt, search_call, searched, fit_call, work,
              error, s_ret, search_seed>>
fitVars == <<f_pc, f_cfg, model_A, model_B, model_S, f_obj0, train_evals,
             ssnmf_iter, f_error, f_ret>>
predVars == <<p_pc, p_B, S_test, Y_predicted, ssnmf_predicted, ssnmf_acc>>
vars == <<runVars, medVars, labelVars, callVars, fitVars, predVars, dataVars>>
\* what run_analysis leaves alone
notRun == <<medVars, labelVars, callVars, fitVars, predVars, dataVars>>
\* what the median selection on its own leaves alone
notMed == <<runVars, labelVars, callVars, fitVars, predVars, dataVars>>
\* what __init__ leaves alone
notLabels == <<runVars, medVars, callVars, fitVars, predVars, dataVars>>
\* what a call of SSNMF leaves alone
notCall == <<runVars, medVars, labelVars, fitVars, predVars, dataVars>>
\* what the fit leaves alone
notFit == <<runVars, medVars, labelVars, callVars, predVars, dataVars>>
\* what the prediction leaves alone
notPredict == <<runVars, medVars, labelVars, callVars, fitVars, dataVars>>

\* a dictionary, record or file that does not exist (yet)
NoValue == [none |-> TRUE]
\* no index selected yet
NoIndex == -1

----------------------------------------------------------------------------
(* Bounds of the model *)

\* largest value of the argument `iterations`
MaxTrials == 3
\* the random generator is a counter modulo RngMod; its value is the
\* accuracy level an invocation reports
RngMod == 7
\* longest accuracy list and largest accuracy level in SpecMedian
MaxLen == 4
MaxAccLevel == 2
\* number of classes of the corpus and largest number of documents of a split
NumClasses == 2
MaxDocs == 2
\* largest maximum-iteration count passed to SSNMF or found by the search
MaxIters == 2
\* largest finite value of a factor entry; a larger one stands for a
\* non-finite entry
MaxEntry == 2

----------------------------------------------------------------------------
(* Sequence helpers *)

Range(s) == {s[k] : k \in DOMAIN s}

----------------------------------------------------------------------------
(* Median-trial selection: np.argsort(acc)[len(acc)//2]                    *)

\* The permutations argsort may return for acc: p[r] is the (1-based)
\* position of the element of rank r.  Equal elements may come in any order
\* (the default sort kind is not stable).
ArgsortResults(acc) ==
    {p \in [DOMAIN acc -> DOMAIN acc] :
        /\ \A a, b \in DOMAIN acc : a # b => p[a] # p[b]
        /\ \A a, b \in DOMAIN acc : a < b => acc[p[a]] <= acc[p[b]]}

\* 0-based rank position len(acc)//2
MiddleRankFirst(n) == 0
MiddleRank(n) == n \div 2

\* The 0-based trial indices argsort(acc)[len(acc)//2] may evaluate to
\* (acc is not empty).
MedianIndices(acc) ==
    {p[MiddleRank(Len(acc)) + 1] - 1 : p \in ArgsortResults(acc)}

\* statistics.median(acc) for a list of odd length (line 355): the value
\* with at most len//2 elements below it and at most len//2 above it
StatMedianOdd(acc) ==
    CHOOSE v \in Range(acc) :
        /\ Cardinality({k \in DOMAIN acc : acc[k] < v}) <= Len(acc) \div 2
        /\ Cardinality({k \in DOMAIN acc : acc[k] > v}) <= Len(acc) \div 2

----------------------------------------------------------------------------
(* run_analysis *)

SSNMFModels == {"Model3", "Model4", "Model5", "Model6"}
\* keys of acc_dict and Yhat_dict (lines 268, 273)
AllMethods == SSNMFModels \cup {"NMF", "NB", "SVM"}
\* keys of A_dict, B_dict, S_dict, S_test_dict, iter_dict (lines 269-274)
FactorMethods == SSNMFModels \cup {"NMF"}
\* keys of median_dict (lines 352-365)
MedianMethods == SSNMFModels \cup {"NMF", "SVM"}

ModelKey(n) ==
    CASE n = 3 -> "Model3" [] n = 4 -> "Model4" [] n = 5 -> "Model5"
      [] OTHER -> "Model6"

EmptyDict(keys) == [k \in keys |-> <<>>]

\* list.append on one key of a dictionary
Append1(d, key, e) == [d EXCEPT ![key] = Append(@, e)]

\* one appended value: the invocation that produced it, the trial it ran in
\* (-1: before the loop) and the value itself
Entry(val) == [inv |-> ninv, trial |-> j, val |-> val]

\* the values of a list of entries
Values(entries) == [k \in DOMAIN entries |-> entries[k].val]

\* the seven dictionaries as they are in memory
Dicts == [acc |-> acc_dict, A |-> A_dict, B |-> B_dict, S |-> S_dict,
          S_test |-> S_test_dict, Yhat |-> Yhat_dict, iter |-> iter_dict]

NoFiles == [acc |-> NoValue, A |-> NoValue, B |-> NoValue, S |-> NoValue,
            S_test |-> NoValue, Yhat |-> NoValue, iter |-> NoValue,
            median |-> NoValue, params |-> NoValue]

Advance(r) == (r + 1) % RngMod

\* An exception raised by a method is not caught anywhere in run_analysis:
\* it leaves the function.  `next` is the position after the invocation.
OnExceptionSkip(next) == next
OnException(next) == "aborted"

InitRun ==
    /\ pc = "nb"
    /\ iterations \in 1..MaxTrials
    /\ j = -1
    /\ i = 3
    /\ rng \in 0..(RngMod - 1)
    /\ ninv = 0
    /\ acc_dict = EmptyDict(AllMethods)
    /\ A_dict = EmptyDict(FactorMethods)
    /\ B_dict = EmptyDict(FactorMethods)
    /\ S_dict = EmptyDict(FactorMethods)
    /\ S_test_dict = EmptyDict(FactorMethods)
    /\ Yhat_dict = EmptyDict(AllMethods)
    /\ iter_dict = EmptyDict(FactorMethods)
    /\ median_dict = NoValue
    /\ disk = NoFiles
    /\ failure = NoValue
    /\ returned = FALSE
    /\ report = NoValue

\* "for j in range(iterations)": the position after the code before the loop
\* or after a checkpoint
LoopHead(nextj) == IF nextj < iterations THEN "ssnmf" ELSE "summary"

\* An invocation of `method` at the current position raises.
Raise(method, next) ==
    /\ failure' = [method |-> method, trial |-> j, inv |-> ninv]
    /\ pc' = OnException(next)
    /\ ninv' = ninv + 1
    /\ UNCHANGED <<iterations, j, i, rng, acc_dict, A_dict, B_dict, S_dict,
                   S_test_dict, Yhat_dict, iter_dict, median_dict, disk,
                   returned, report>>

\* lines 283-286
RunNB ==
    /\ pc = "nb"
    /\ UNCHANGED notRun
    /\ \/ /\ acc_dict' = Append1(acc_dict, "NB", Entry(rng))
          /\ Yhat_dict' = Append1(Yhat_dict, "NB", Entry("Yhat"))
          /\ ninv' = ninv + 1
          /\ j' = 0
          /\ i' = 3
          /\ pc' = LoopHead(0)
          /\ UNCHANGED <<iterations, rng, A_dict, B_dict, S_dict, S_test_dict,
                         iter_dict, median_dict, disk, failure, returned, report>>
       \/ Raise("NB", "nb")

\* the seven appends of lines 294-300 and 304-310
AppendFactorsNoIter(key) ==
    /\ acc_dict' = Append1(acc_dict, key, Entry(rng))
    /\ A_dict' = Append1(A_dict, key, Entry("A"))
    /\ B_dict' = Append1(B_dict, key, Entry("B"))
    /\ S_dict' = Append1(S_dict, key, Entry("S"))
    /\ S_test_dict' = Append1(S_test_dict, key, Entry("S_test"))
    /\ Yhat_dict' = Append1(Yhat_dict, key, Entry("Yhat"))
    /\ iter_dict' = IF key = "NMF" THEN iter_dict
                    ELSE Append1(iter_dict, key, Entry("iter"))
AppendFactors(key) ==
    /\ acc_dict' = Append1(acc_dict, key, Entry(rng))
    /\ A_dict' = Append1(A_dict, key, Entry("A"))
    /\ B_dict' = Append1(B_dict, key, Entry("B"))
    /\ S_dict' = Append1(S_dict, key, Entry("S"))
    /\ S_test_dict' = Append1(S_test_dict, key, Entry("S_test"))
    /\ Yhat_dict' = Append1(Yhat_dict, key, Entry("Yhat"))
    /\ iter_dict' = Append1(iter_dict, key, Entry("iter"))

\* lines 290-300: one pass of "for i in range(3,7)"
RunSSNMF ==
    /\ pc = "ssnmf"
    /\ UNCHANGED notRun
    /\ \/ /\ AppendFactors(ModelKey(i))
          /\ rng' = Advance(rng)
          /\ ninv' = ninv + 1
          /\ i' = IF i < 6 THEN i + 1 ELSE 3
          /\ pc' = IF i < 6 THEN "ssnmf" ELSE "nmf"
          /\ UNCHANGED <<iterations, j, median_dict, disk, failure, returned,
                         report>>
       \/ Raise(ModelKey(i), IF i < 6 THEN "ssnmf" ELSE "nmf")

\* lines 302-310
RunNMF ==
    /\ pc = "nmf"
    /\ UNCHANGED notRun
    /\ \/ /\ AppendFactors("NMF")
          /\ rng' = Advance(rng)
          /\ ninv' = ninv + 1
          /\ pc' = "svm"
          /\ UNCHANGED <<iterations, j, i, median_dict, disk, failure,
                         returned, report>>
       \/ Raise("NMF", "svm")

\* lines 312-315
RunSVM ==
    /\ pc = "svm"
    /\ UNCHANGED notRun
    /\ \/ /\ acc_dict' = Append1(acc_dict, "SVM", Entry(rng))
          /\ Yhat_dict' = Append1(Yhat_dict, "SVM", Entry("Yhat"))
          /\ rng' = Advance(rng)
          /\ ninv' = ninv + 1
          /\ pc' = "save"
          /\ UNCHANGED <<iterations, j, i, A_dict, B_dict, S_dict, S_test_dict,
                         iter_dict, median_dict, disk, failure, returned,
                         report>>
       \/ Raise("SVM", "save")

\* lines 317-324: the seven pickle.dump calls, each overwriting its file
SaveDictsOnce ==
    IF disk.acc = NoValue
    THEN [disk EXCEPT !.acc = acc_dict, !.A = A_dict, !.B = B_dict,
                      !.S = S_dict, !.S_test = S_test_dict,
                      !.Yhat = Yhat_dict, !.iter = iter_dict]
    ELSE disk
SaveDicts ==
    [disk EXCEPT !.acc = acc_dict, !.A = A_dict, !.B = B_dict, !.S = S_dict,
                 !.S_test = S_test_dict, !.Yhat = Yhat_dict,
                 !.iter = iter_dict]

Checkpoint ==
    /\ pc = "save"
    /\ UNCHANGED notRun
    /\ disk' = SaveDicts
    /\ j' = j + 1
    /\ pc' = LoopHead(j + 1)
    /\ UNCHANGED <<iterations, i, rng, ninv, acc_dict, A_dict, B_dict, S_dict,
                   S_test_dict, Yhat_dict, iter_dict, median_dict, failure,
                   returned, report>>

\* statistics.stdev raises StatisticsError for fewer than two data points
\* (lines 331, 333, 337); statistics.mean for none
StdevDefinedForOne(acc) == Len(acc) >= 1
StdevDefined(acc) == Len(acc) >= 2

\* line 369: the configuration record (of the arguments, `iterations` is
\* the one the run keeps)
ParamList == [iterations |-> iterations]

\* lines 326-371
Summarize ==
    /\ pc = "summary"
    /\ UNCHANGED notRun
    /\ \/ /\ \A key \in MedianMethods : StdevDefined(acc_dict[key])
          /\ \E md \in [MedianMethods -> 0..(iterations - 1)] :
                /\ \A key \in MedianMethods :
                      md[key] \in MedianIndices(Values(acc_dict[key]))
                /\ median_dict' = md
                /\ disk' = [disk EXCEPT !.median = md, !.params = ParamList]
          /\ returned' = TRUE
          /\ pc' = "done"
          /\ UNCHANGED <<iterations, j, i, rng, ninv, acc_dict, A_dict, B_dict,
                         S_dict, S_test_dict, Yhat_dict, iter_dict, failure,
                         report>>
       \/ /\ \E key \in MedianMethods : ~StdevDefined(acc_dict[key])
          /\ failure' = [method |-> "stdev", trial |-> j, inv |-> ninv]
          /\ pc' = "aborted"
          /\ UNCHANGED <<iterations, j, i, rng, ninv, acc_dict, A_dict, B_dict,
                         S_dict, S_test_dict, Yhat_dict, iter_dict,
                         median_dict, disk, returned, report>>

\* lines 387-419: what median_results reads from the returned dictionaries
ReadMedian(key) ==
    [A |-> A_dict[key][median_dict[key] + 1],
     B |-> B_dict[key][median_dict[key] + 1],
     Yhat |-> Yhat_dict[key][median_dict[key] + 1],
     iter |-> iter_dict[key][median_dict[key] + 1]]

MedianResults ==
    /\ pc = "done"
    /\ UNCHANGED notRun
    /\ report = NoValue
    /\ report' = [key \in AllMethods |->
                     IF key \in FactorMethods THEN ReadMedian(key)
                     ELSE IF key = "NB" THEN [Yhat |-> Yhat_dict["NB"][1]]
                     ELSE [Yhat |-> Yhat_dict["SVM"][median_dict["SVM"] + 1]]]
    /\ UNCHANGED <<pc, iterations, j, i, rng, ninv, acc_dict, A_dict, B_dict,
                   S_dict, S_test_dict, Yhat_dict, iter_dict, median_dict,
                   disk, failure, returned>>

IdleRun ==
    /\ pc = "idle" /\ iterations = 0 /\ j = -1 /\ i = 3 /\ rng = 0 /\ ninv = 0
    /\ acc_dict = EmptyDict(AllMethods)
    /\ A_dict = EmptyDict(FactorMethods)
    /\ B_dict = EmptyDict(FactorMethods)
    /\ S_dict = EmptyDict(FactorMethods)
    /\ S_test_dict = EmptyDict(FactorMethods)
    /\ Yhat_dict = EmptyDict(AllMethods)
    /\ iter_dict = EmptyDict(FactorMethods)
    /\ median_dict = NoValue /\ disk = NoFiles /\ failure = NoValue
    /\ returned = FALSE /\ report = NoValue

IdleMedian == m_acc = <<>> /\ m_idx = NoIndex

IdleLabels ==
    /\ train_labels = <<>> /\ val_labels = <<>> /\ test_labels = <<>>
    /\ train_labels_full = <<>>
    /\ y_train = <<>> /\ y_val = <<>> /\ y_test = <<>> /\ y_train_full = <<>>
    /\ built = FALSE

IdleCall ==
    /\ s_pc = "idle" /\ args = NoValue /\ opt = NoValue /\ prev_opt = NoValue
    /\ search_call = NoValue /\ searched = <<>> /\ fit_call = NoValue
    /\ work = 0 /\ error = "none" /\ s_ret = NoValue
    /\ search_seed = NoIndex

IdleData == splits = NoValue

IdleFit ==
    /\ f_pc = "idle" /\ f_cfg = NoValue
    /\ model_A = <<>> /\ model_B = <<>> /\ model_S = <<>>
    /\ f_obj0 = 0 /\ train_evals = <<>> /\ ssnmf_iter = 0
    /\ f_error = "none" /\ f_ret = NoValue

IdlePredict ==
    /\ p_pc = "idle" /\ p_B = <<>> /\ S_test = <<>>
    /\ Y_predicted = <<>> /\ ssnmf_predicted = <<>> /\ ssnmf_acc = NoValue

Init ==
    /\ InitRun /\ IdleMedian /\ IdleLabels /\ IdleCall /\ IdleFit /\ IdlePredict
    /\ IdleData

Next ==
    \/ RunNB
    \/ RunSSNMF
    \/ RunNMF
    \/ RunSVM
    \/ Checkpoint
    \/ Summarize
    \/ MedianResults

Spec == Init /\ [][Next]_vars

----------------------------------------------------------------------------
(* The median-trial selection applied to accuracy lists of every shape     *)

\* the example list of accuracies, in percent
ExampleAcc == <<70, 85, 60, 90, 75>>

AccLists ==
    UNION {[1..n -> 0..MaxAccLevel] : n \in 1..MaxLen} \cup {ExampleAcc}

InitMedian ==
    /\ IdleRun
    /\ IdleLabels
    /\ IdleCall
    /\ IdleData
    /\ IdleFit
    /\ IdlePredict
    /\ m_acc \in AccLists
    /\ m_idx = NoIndex

\* line 354 (358, 365): median_dict[key] = np.argsort(acc)[len(acc)//2]
SelectMedian ==
    /\ m_idx = NoIndex
    /\ m_idx' \in MedianIndices(m_acc)
    /\ UNCHANGED m_acc
    /\ UNCHANGED notMed

NextMedian == SelectMedian

SpecMedian == InitMedian /\ [][NextMedian]_vars

----------------------------------------------------------------------------
(* Methods.__init__: one-hot encoding of the labels of each split          *)

\* the classes of the corpus (cls_names); labels are 1-indexed
Classes == 1..NumClasses

\* the distinct values of a label vector in increasing order: the columns
\* pd.get_dummies makes
Present(labels) ==
    LET vals == Range(labels)
        rank(v) == Cardinality({w \in vals : w < v}) + 1
    IN  [r \in 1..Cardinality(vals) |-> CHOOSE v \in vals : rank(v) = r]

\* pd.get_dummies(labels).T.to_numpy(): one row per distinct value of
\* `labels`, one column per document
GetDummiesT(labels) ==
    LET cols == Present(labels)
    IN  [r \in DOMAIN cols |->
            [d \in DOMAIN labels |-> IF labels[d] = cols[r] THEN 1 ELSE 0]]

LabelVectors == UNION {[1..n -> Classes] : n \in 1..MaxDocs}

\* the arguments of __init__; the full-train split is the train split
\* followed by the validation split
InitLabels ==
    /\ IdleRun
    /\ IdleMedian
    /\ IdleCall
    /\ IdleData
    /\ IdleFit
    /\ IdlePredict
    /\ train_labels \in LabelVectors
    /\ val_labels \in LabelVectors
    /\ test_labels \in LabelVectors
    /\ train_labels_full = train_labels \o val_labels
    /\ y_train = <<>> /\ y_val = <<>> /\ y_test = <<>> /\ y_train_full = <<>>
    /\ built = FALSE

\* lines 49-57
Construct ==
    /\ ~built
    /\ y_train' = GetDummiesT(train_labels)
    /\ y_test' = GetDummiesT(test_labels)
    /\ y_val' = GetDummiesT(val_labels)
    /\ y_train_full' = GetDummiesT(train_labels_full)
    /\ built' = TRUE
    /\ UNCHANGED <<train_labels, val_labels, test_labels, train_labels_full>>
    /\ UNCHANGED notLabels

NextInit == Construct

SpecInit == InitLabels /\ [][NextInit]_vars

----------------------------------------------------------------------------
(* Methods.SSNMF: hyperparameter resolution, search and final evaluation   *)

\* values of the arguments ka, lamb, itas, ssnmf_tol (in percent), modelNum
RankValues == {0, 1, 2}
LambValues == {-1, 0, 1}
IterValues == 0..MaxIters
TolValues == {0, 50}
ModelNums == 3..6

CallArgs ==
    [modelNum : ModelNums, ssnmf_tol : TolValues, lamb : LambValues,
     ka : RankValues, itas : IterValues, hyp_search : {0, 1}]

\* The evaluator accepts rank > 0, regularization weight >= 0 and
\* maximum iteration count > 0 and raises InvalidHyperparameterError
\* otherwise, before it fits anything.
ValidHyper(k, lam, numiters) == k > 0 /\ lam >= 0 /\ numiters > 0

\* The triples <<lamb, ka, itas>> iterativeLocalSearch can return: the
\* best candidate it has evaluated, which is a valid one.
SearchResults ==
    {t \in LambValues \X RankValues \X IterValues : ValidHyper(t[2], t[1], t[3])}

\* lines 38-57: the data attributes of the object
SplitNames ==
    {"X_train", "y_train", "X_val", "y_val", "X_train_full", "y_train_full",
     "X_test", "y_test"}
\* contents a split can have
DataValues == {0, 1}
\* the attributes whose content varies between the objects considered
VaryingSplits == {"X_train", "X_test", "y_test"}
\* the objects SSNMF is called on
SplitChoices ==
    {d \in [SplitNames -> DataValues] :
        \A n \in SplitNames \ VaryingSplits : d[n] = 0}
\* outcomes of the random choices of one search
Seeds == {0, 1}

\* the data an Evaluation holds: the contents of the attributes it was
\* built from
Bind(call, data) ==
    [call EXCEPT !.train_features = data[call.train_features],
                 !.train_labels = data[call.train_labels],
                 !.test_features = data[call.test_features],
                 !.test_labels = data[call.test_labels]]

\* iterativeLocalSearch is a function of the Evaluation it runs on (its
\* training and evaluation data, model variant, tolerance), of the initial
\* values and of its random choices.  The scoring policy is left open, so
\* the function mixes all of its inputs: each of them can change the result.
Mix(ev, seed) ==
    ev.train_features + 2 * ev.train_labels + 3 * ev.test_features
        + 5 * ev.test_labels + 7 * seed + ev.init_k + ev.init_lamb
        + ev.init_itas + ev.modelNum + ev.tol
\* the triple <<lamb, ka, itas>> the search returns
SearchChoice(ev, seed) ==
    <<Mix(ev, seed) % 2, 1 + ((Mix(ev, seed) \div 2) % 2),
      1 + ((Mix(ev, seed) \div 4) % MaxIters)>>

\* lines 199-202: the hyperparameters when no search is asked for.
\* `old` is what an earlier call left in self.opt_*.
ResolveKeepOld(a, old) ==
    IF old = NoValue THEN [ka |-> a.ka, lamb |-> a.lamb, itas |-> a.itas]
    ELSE old
Resolve(a, old) == [ka |-> a.ka, lamb |-> a.lamb, itas |-> a.itas]

\* line 209: self.opt_lamb, self.opt_ka, self.opt_itas = <result>
Unpack(t) == [ka |-> t[2], lamb |-> t[1], itas |-> t[3]]

\* lines 204-209: the Evaluation built for the search and the arguments of
\* iterativeLocalSearch
SearchEvaluationOnTest(a) ==
    [train_features |-> "X_train", train_labels |-> "y_train",
     test_features |-> "X_test", test_labels |-> "y_test",
     k |-> a.ka, modelNum |-> a.modelNum, tol |-> a.ssnmf_tol,
     init_lamb |-> a.lamb, init_k |-> a.ka, init_itas |-> a.itas]
SearchEvaluation(a) ==
    [train_features |-> "X_train", train_labels |-> "y_train",
     test_features |-> "X_val", test_labels |-> "y_val",
     k |-> a.ka, modelNum |-> a.modelNum, tol |-> a.ssnmf_tol,
     init_lamb |-> a.lamb, init_k |-> a.ka, init_itas |-> a.itas]

\* lines 211-214: the Evaluation built for the final fit
FinalEvaluationDefaultLam(a, o) ==
    [train_features |-> "X_train_full", train_labels |-> "y_train_full",
     test_features |-> "X_test", test_labels |-> "y_test",
     tol |-> a.ssnmf_tol, modelNum |-> a.modelNum,
     k |-> o.ka, lam |-> 1, numiters |-> o.itas]
FinalEvaluation(a, o) ==
    [train_features |-> "X_train_full", train_labels |-> "y_train_full",
     test_features |-> "X_test", test_labels |-> "y_test",
     tol |-> a.ssnmf_tol, modelNum |-> a.modelNum,
     k |-> o.ka, lam |-> o.lamb, numiters |-> o.itas]

InitSSNMF ==
    /\ IdleRun
    /\ IdleMedian
    /\ IdleLabels
    /\ IdleCall
    /\ splits \in SplitChoices
    /\ IdleFit
    /\ IdlePredict

\* lines 194-207: a call of SSNMF, up to the search or the final fit
CallSSNMF ==
    /\ s_pc = "idle"
    /\ \E a \in CallArgs :
          /\ args' = a
          /\ \/ /\ a.hyp_search = 0
                /\ opt' = Resolve(a, opt)
                /\ search_call' = NoValue
                /\ s_pc' = "fit"
             \/ /\ a.hyp_search # 0
                /\ opt' = opt
                /\ search_call' = SearchEvaluation(a)
                /\ s_pc' = "search"
    /\ prev_opt' = opt
    /\ searched' = <<>>
    /\ fit_call' = NoValue
    /\ work' = 0
    /\ error' = "none"
    /\ s_ret' = NoValue
    /\ search_seed' = NoIndex
    /\ UNCHANGED notCall

\* line 209: eval_module.iterativeLocalSearch(init_lamb, init_k, init_itas)
Search ==
    /\ s_pc = "search"
    /\ \/ /\ ~ValidHyper(search_call.init_k, search_call.init_lamb,
                          search_call.init_itas)
          /\ error' = "InvalidHyperparameterError"
          /\ s_pc' = "raised"
          /\ UNCHANGED <<opt, searched, work, search_seed>>
       \/ /\ ValidHyper(search_call.init_k, search_call.init_lamb,
                         search_call.init_itas)
          /\ \E seed \in Seeds :
                /\ search_seed' = seed
                /\ searched' = SearchChoice(Bind(search_call, splits), seed)
                /\ opt' = Unpack(searched')
          /\ work' = work + 1
          /\ s_pc' = "fit"
          /\ UNCHANGED error
    /\ UNCHANGED <<args, prev_opt, search_call, fit_call, s_ret>>
    /\ UNCHANGED notCall

\* lines 211-216: the final Evaluation and eval_module.eval()
FinalFit ==
    /\ s_pc = "fit"
    /\ fit_call' = FinalEvaluation(args, opt)
    /\ \/ /\ ~ValidHyper(fit_call'.k, fit_call'.lam, fit_call'.numiters)
          /\ error' = "InvalidHyperparameterError"
          /\ s_pc' = "raised"
          /\ UNCHANGED work
       \/ /\ ValidHyper(fit_call'.k, fit_call'.lam, fit_call'.numiters)
          /\ error' = "NumericInstabilityError"
          /\ s_pc' = "raised"
          /\ work' = work + 1
       \/ /\ ValidHyper(fit_call'.k, fit_call'.lam, fit_call'.numiters)
          /\ s_pc' = "evaluated"
          /\ work' = work + 1
          /\ UNCHANGED error
    /\ UNCHANGED <<args, opt, prev_opt, search_call, searched, s_ret,
                   search_seed>>
    /\ UNCHANGED notCall

\* lines 217-238
ReturnSSNMF ==
    /\ s_pc = "evaluated"
    /\ s_ret' = [k |-> fit_call.k, lam |-> fit_call.lam,
                 numiters |-> fit_call.numiters]
    /\ s_pc' = "returned"
    /\ UNCHANGED <<args, opt, prev_opt, search_call, searched, fit_call, work,
                   error, search_seed>>
    /\ UNCHANGED notCall

\* the call is over (line 238, or an exception left the method): its
\* locals are gone, the object keeps self.opt_ka, opt_lamb, opt_itas
LeaveSSNMF ==
    /\ s_pc \in {"returned", "raised"}
    /\ s_pc' = "idle"
    /\ args' = NoValue
    /\ prev_opt' = NoValue
    /\ search_call' = NoValue
    /\ searched' = <<>>
    /\ fit_call' = NoValue
    /\ work' = 0
    /\ error' = "none"
    /\ s_ret' = NoValue
    /\ search_seed' = NoIndex
    /\ UNCHANGED opt
    /\ UNCHANGED notCall

NextSSNMF ==
    \/ CallSSNMF
    \/ Search
    \/ FinalFit
    \/ ReturnSSNMF
    \/ LeaveSSNMF

SpecSSNMF == InitSSNMF /\ [][NextSSNMF]_vars

----------------------------------------------------------------------------
(* Matrices: sequences of rows                                             *)

NRows(M) == Len(M)
NCols(M) == IF Len(M) = 0 THEN 0 ELSE Len(M[1])

RECURSIVE SumTo(_, _)
\* f[1] + ... + f[n]
SumTo(f, n) == IF n = 0 THEN 0 ELSE f[n] + SumTo(f, n - 1)

\* P @ Q
MatMul(P, Q) ==
    [r \in 1..NRows(P) |->
        [c \in 1..NCols(Q) |->
            SumTo([t \in 1..NCols(P) |-> P[r][t] * Q[t][c]], NCols(P))]]

\* sum of the squared entries of P - Q
SqDist(P, Q) ==
    SumTo([r \in 1..NRows(P) |->
              SumTo([c \in 1..NCols(P) |->
                        (P[r][c] - Q[r][c]) * (P[r][c] - Q[r][c])], NCols(P))],
          NRows(P))

Entries(M) == UNION {Range(M[r]) : r \in DOMAIN M}

Matrices(rows, cols, values) == [1..rows -> [1..cols -> values]]

----------------------------------------------------------------------------
(* The fit of the final evaluation (eval_module.eval(), line 216) on a     *)
(* corpus of one term and one training document of class 1 of two, with    *)
(* rank 1: X is 1x1, Y is 2x1, A is 1x1, B is 2x1, S is 1x1.               *)

\* a non-finite entry (inf, nan)
NonFinite == MaxEntry + 1
IsFinite(e) == e <= MaxEntry

FitConfigs ==
    [X : Matrices(1, 1, {1, 2}), Y : {<< <<1>>, <<0>> >>},
     k : {1}, lam : {0, 1}, numiters : 1..MaxIters, tol : TolValues]

\* values of the random non-negative initial entries
InitEntries == {0, 1}

\* The ratios <<numerator, denominator>> of non-negative terms by which a
\* multiplicative update rescales the entries of a factor; the denominator
\* includes the additive epsilon and is positive.
Ratios == {<<0, 1>>, <<1, 2>>, <<1, 1>>, <<2, 1>>}

\* one entry rescaled; a value too large to represent is non-finite
RescaleEntry(e, ratio) ==
    IF (e * ratio[1]) \div ratio[2] > MaxEntry THEN NonFinite
    ELSE (e * ratio[1]) \div ratio[2]

Rescale(M, ratio) ==
    [r \in DOMAIN M |-> [c \in DOMAIN M[r] |-> RescaleEntry(M[r][c], ratio)]]

\* data-reconstruction and label-reconstruction error, each normalized by
\* the number of entries of its matrix (here scaled by both counts)
DataError(cfg, A, S) == NRows(cfg.Y) * NCols(cfg.Y) * SqDist(cfg.X, MatMul(A, S))
LabelError(cfg, B, S) == NRows(cfg.X) * NCols(cfg.X) * SqDist(cfg.Y, MatMul(B, S))
\* the combined objective
Objective(cfg, A, B, S) == DataError(cfg, A, S) + cfg.lam * LabelError(cfg, B, S)

Abs(a) == IF a < 0 THEN 0 - a ELSE a

\* relative change of the objective below tol (tol in percent)
Converged(prev, cur, tol) == prev > 0 /\ 100 * Abs(prev - cur) < tol * prev

\* the factors are usable: no negative and no non-finite entry
Stable(M) == \A e \in Entries(M) : e >= 0 /\ IsFinite(e)

\* line 217: ssnmf_iter = len(train_evals[0])
IterCountOuter(evals) == Len(evals)
IterCount(evals) == Len(evals[1])

\* B_norm of line 233: B / B.sum(axis=0); 0/0 is not a number
NormalizedB(B) ==
    [r \in DOMAIN B |->
        [c \in DOMAIN B[r] |->
            LET total == SumTo([q \in DOMAIN B |-> B[q][c]], Len(B))
            IN  IF total = 0 THEN NonFinite ELSE B[r][c] \div total]]

\* lines 225, 238: the factors SSNMF returns are those of the fitted model
ReturnedFactorsNormB(A, B, S) == [A |-> A, B |-> NormalizedB(B), S |-> S]
ReturnedFactors(A, B, S) == [A |-> A, B |-> B, S |-> S]

\* lines 211-214: the final Evaluation, built with valid hyperparameters
InitFit ==
    /\ IdleRun
    /\ IdleMedian
    /\ IdleLabels
    /\ IdleCall
    /\ IdleData
    /\ IdlePredict
    /\ f_pc = "built"
    /\ f_cfg \in FitConfigs
    /\ model_A = <<>> /\ model_B = <<>> /\ model_S = <<>>
    /\ f_obj0 = 0 /\ train_evals = <<>> /\ ssnmf_iter = 0
    /\ f_error = "none" /\ f_ret = NoValue

\* initialization of A, B, S with random non-negative values
FitInit ==
    /\ f_pc = "built"
    /\ model_A' \in Matrices(NRows(f_cfg.X), f_cfg.k, InitEntries)
    /\ model_B' \in Matrices(NRows(f_cfg.Y), f_cfg.k, InitEntries)
    /\ model_S' \in Matrices(f_cfg.k, NCols(f_cfg.X), InitEntries)
    /\ f_obj0' = Objective(f_cfg, model_A', model_B', model_S')
    /\ train_evals' = << <<>>, <<>>, <<>>, <<>> >>
    /\ f_pc' = "loop"
    /\ UNCHANGED <<f_cfg, ssnmf_iter, f_error, f_ret>>
    /\ UNCHANGED notFit

\* objective before the update in progress
PrevObjective ==
    IF Len(train_evals[1]) = 0 THEN f_obj0
    ELSE train_evals[1][Len(train_evals[1])]

\* one multiplicative update of A, B and S, the stability check, the error
\* values of the iteration and the stopping rule
FitUpdate ==
    /\ f_pc = "loop"
    /\ \E ra, rb, rs \in Ratios :
          /\ model_A' = Rescale(model_A, ra)
          /\ model_B' = Rescale(model_B, rb)
          /\ model_S' = Rescale(model_S, rs)
    /\ \/ /\ ~(Stable(model_A') /\ Stable(model_B') /\ Stable(model_S'))
          /\ f_error' = "NumericInstabilityError"
          /\ f_pc' = "raised"
          /\ UNCHANGED train_evals
       \/ /\ Stable(model_A') /\ Stable(model_B') /\ Stable(model_S')
          /\ LET obj == Objective(f_cfg, model_A', model_B', model_S')
             IN  /\ train_evals' =
                       <<Append(train_evals[1], obj),
                         Append(train_evals[2], DataError(f_cfg, model_A', model_S')),
                         Append(train_evals[3], LabelError(f_cfg, model_B', model_S')),
                         Append(train_evals[4], 0)>>
                 /\ f_pc' = IF \/ Converged(PrevObjective, obj, f_cfg.tol)
                               \/ Len(train_evals[1]) + 1 >= f_cfg.numiters
                            THEN "fitted" ELSE "loop"
          /\ UNCHANGED f_error
    /\ UNCHANGED <<f_cfg, f_obj0, ssnmf_iter, f_ret>>
    /\ UNCHANGED notFit

\* lines 216-238: eval() has returned; SSNMF returns
FitReturn ==
    /\ f_pc = "fitted"
    /\ ssnmf_iter' = IterCount(train_evals)
    /\ f_ret' = ReturnedFactors(model_A, model_B, model_S)
    /\ f_pc' = "returned"
    /\ UNCHANGED <<f_cfg, model_A, model_B, model_S, f_obj0, train_evals,
                   f_error>>
    /\ UNCHANGED notFit

NextFit ==
    \/ FitInit
    \/ FitUpdate
    \/ FitReturn

\* the program is sequential: a step that can be taken is taken
FairSpecFit == InitFit /\ [][NextFit]_vars /\ WF_vars(NextFit)

----------------------------------------------------------------------------
(* Properties of the fit (specification FairSpecFit)                       *)

\* the objective before iteration t (1-based)
ObjectiveBefore(t) == IF t = 1 THEN f_obj0 ELSE train_evals[1][t - 1]

\* the relative change of the objective in iteration t is below tol
ConvergedAt(t) ==
    Converged(ObjectiveBefore(t), train_evals[1][t], f_cfg.tol)

FitStarted == f_pc \in {"loop", "fitted", "returned", "raised"}

\* the loop invariant of the fit
C7_StoppingRule ==
    FitStarted =>
        LET n == Len(train_evals[1])
        IN  /\ n <= f_cfg.numiters
            /\ \A t \in 1..(n - 1) : ~ConvergedAt(t)
            /\ f_pc = "loop" =>
                  n < f_cfg.numiters /\ (n >= 1 => ~ConvergedAt(n))
            /\ f_pc \in {"fitted", "returned"} =>
                  n >= 1 /\ (ConvergedAt(n) \/ n = f_cfg.numiters)
            /\ f_pc = "returned" =>
                  ssnmf_iter = n /\ ssnmf_iter \in 1..f_cfg.numiters

\* C7: the fit stops at the first iteration whose relative change of the
\* objective is below tol, or after maxIters updates, whichever comes
\* first; the iteration count SSNMF returns is between 1 and maxIters, also
\* when maxIters is reached without the tolerance being met; and the fit
\* always ends (SSNMF returns, or an exception leaves it).
C7_FitTerminates ==
    /\ []C7_StoppingRule
    /\ <>(f_pc \in {"returned", "raised"})

C7_Witness ==
    /\ f_pc = "returned"
    /\ f_cfg.numiters = MaxIters
    /\ ssnmf_iter = MaxIters
    /\ ~ConvergedAt(MaxIters)
    /\ f_cfg.tol > 0

\* C8: A, B and S have no negative entry after initialization and after
\* every update; a factor with a negative or non-finite entry ends the fit
\* with NumericInstabilityError, and what SSNMF returns are the factors as
\* fitted (not clipped), all finite and non-negative.
C8_FactorsNonNegative ==
    FitStarted =>
        /\ \A e \in Entries(model_A) \cup Entries(model_B) \cup Entries(model_S) :
              e >= 0
        /\ ~(Stable(model_A) /\ Stable(model_B) /\ Stable(model_S)) =>
              f_pc = "raised" /\ f_error = "NumericInstabilityError"
        /\ f_pc = "returned" =>
              /\ f_ret.A = model_A /\ f_ret.B = model_B /\ f_ret.S = model_S
              /\ Stable(f_ret.A) /\ Stable(f_ret.B) /\ Stable(f_ret.S)

C8_Witness ==
    /\ f_pc = "raised"
    /\ f_error = "NumericInstabilityError"
    /\ Len(train_evals[1]) >= 1
    /\ \E e \in Entries(model_S) : ~IsFinite(e)

----------------------------------------------------------------------------
(* Prediction on the test set (lines 216-223) after the final fit: B has   *)
(* one row per row of y_test (the evaluation fails on any other shape) and *)
(* S_test one column per test document.                                    *)

\* rank of the fitted model
PredictRank == {2}
\* values of the entries of the fitted B and of S_test
PredictEntries == {0, 1}

\* column d of M
Column(M, d) == [r \in 1..NRows(M) |-> M[r][d]]

\* np.argmax of a vector: the 0-based index of the first maximum
Argmax(v) ==
    (CHOOSE r \in 1..Len(v) :
        /\ \A q \in 1..Len(v) : v[q] <= v[r]
        /\ \A q \in 1..(r - 1) : v[q] < v[r]) - 1

\* np.argmax(M, axis=0)
ArgmaxAxis0(M) == [d \in 1..NCols(M) |-> Argmax(Column(M, d))]

\* line 223: np.argmax(Y_predicted, axis=0) + 1
PredictedLabelsZeroBased(Y) == ArgmaxAxis0(Y)
PredictedLabels(Y) == [d \in 1..NCols(Y) |-> ArgmaxAxis0(Y)[d] + 1]

\* the classification accuracy of the evaluation: the fraction of the
\* columns of B @ S whose argmax is the argmax of the column of Y
EvalAccuracy(B, S, Y) ==
    [num |-> Cardinality({d \in 1..NCols(Y) :
                 Argmax(Column(MatMul(B, S), d)) = Argmax(Column(Y, d))}),
     den |-> NCols(Y)]

InitPredict ==
    /\ IdleRun
    /\ IdleMedian
    /\ IdleCall
    /\ IdleData
    /\ IdleFit
    /\ train_labels = <<>> /\ val_labels = <<>> /\ train_labels_full = <<>>
    /\ y_train = <<>> /\ y_val = <<>> /\ y_train_full = <<>>
    /\ test_labels \in LabelVectors
    /\ y_test = GetDummiesT(test_labels)
    /\ built = TRUE
    /\ p_pc = "fitted"
    /\ \E k \in PredictRank :
          /\ p_B \in Matrices(NRows(y_test), k, PredictEntries)
          /\ S_test \in Matrices(k, NCols(y_test), PredictEntries)
    /\ Y_predicted = <<>> /\ ssnmf_predicted = <<>> /\ ssnmf_acc = NoValue

\* lines 219-223
Predict ==
    /\ p_pc = "fitted"
    /\ ssnmf_acc' = EvalAccuracy(p_B, S_test, y_test)
    /\ Y_predicted' = MatMul(p_B, S_test)
    /\ ssnmf_predicted' = PredictedLabels(Y_predicted')
    /\ p_pc' = "predicted"
    /\ UNCHANGED <<p_B, S_test>>
    /\ UNCHANGED notPredict

NextPredict == Predict

SpecPredict == InitPredict /\ [][NextPredict]_vars

----------------------------------------------------------------------------
(* Properties of the prediction (specification SpecPredict)                *)

\* the permutations of 1..n
ColumnOrders(n) ==
    {p \in [1..n -> 1..n] : \A a, b \in 1..n : p[a] = p[b] => a = b}

\* the columns of M rearranged by p
PermuteColumns(M, p) == [r \in DOMAIN M |-> [c \in DOMAIN p |-> M[r][p[c]]]]

\* the class index of test document d: the 1-based row of y_test holding
\* the 1 of its column
ClassIndex(d) == CHOOSE r \in 1..NRows(y_test) : y_test[r][d] = 1

----------------------------------------------------------------------------
(* Properties of Methods.SSNMF (specification SpecSSNMF)                   *)

\* the supplied hyperparameters are acceptable
ValidArgs(a) == a.ka > 0 /\ a.lamb >= 0 /\ a.itas > 0

InCall == s_pc # "idle"

\* C4: a call with rank <= 0, regWeight < 0 or maxIters <= 0 ends in
\* InvalidHyperparameterError and no model fit (in the search or the final
\* fit) is begun in it; the error is raised for no other call.
C4_InvalidHyperparametersRejected ==
    InCall =>
        /\ ~ValidArgs(args) =>
              /\ work = 0
              /\ s_pc \notin {"evaluated", "returned"}
              /\ s_pc = "raised" => error = "InvalidHyperparameterError"
        /\ error = "InvalidHyperparameterError" =>
              ~ValidArgs(args) /\ work = 0 /\ s_pc = "raised"

C4_Witness ==
    /\ s_pc = "raised"
    /\ error = "InvalidHyperparameterError"
    /\ args.lamb < 0 /\ args.ka > 0 /\ args.itas > 0
    /\ args.hyp_search = 0
    /\ work = 0

TestSplits == {"X_test", "y_test"}

\* the objects that differ from the one with data d in the test split only
SameButTest(d) ==
    {e \in [SplitNames -> DataValues] :
        \A n \in SplitNames \ TestSplits : e[n] = d[n]}

\* C11: with the search on, the search runs on X_train, y_train as
\* training data and X_val, y_val as evaluation data, the final fit on
\* X_train_full, y_train_full and X_test, y_test; and on every object that
\* differs in the test split only, the same call with the same search
\* randomness finds the same hyperparameters.
C11_SearchIndependentOfTest ==
    /\ search_call # NoValue =>
          /\ search_call.train_features = "X_train"
          /\ search_call.train_labels = "y_train"
          /\ search_call.test_features = "X_val"
          /\ search_call.test_labels = "y_val"
    /\ fit_call # NoValue =>
          /\ fit_call.train_features = "X_train_full"
          /\ fit_call.train_labels = "y_train_full"
          /\ fit_call.test_features = "X_test"
          /\ fit_call.test_labels = "y_test"
    /\ (InCall /\ args.hyp_search # 0 /\ searched # <<>>) =>
          \A e \in SameButTest(splits) :
             /\ SearchChoice(Bind(SearchEvaluation(args), e), search_seed)
                   = searched
             /\ opt = Unpack(searched)

C11_Witness ==
    /\ s_pc = "returned"
    /\ args.hyp_search # 0
    /\ searched # <<>>
    /\ fit_call # NoValue
    /\ splits["X_test"] = 1 /\ splits["y_test"] = 1 /\ splits["X_train"] = 1

----------------------------------------------------------------------------
(* Properties of Methods.__init__ (specification SpecInit)                 *)

\* the classes that occur in some split, in increasing order
GlobalClasses ==
    Present(train_labels \o val_labels \o test_labels \o train_labels_full)

\* Y has one row per class of the global class set, in its order, one
\* column per document of `labels`, and every column sums to 1
OneHotOverGlobal(Y, labels) ==
    /\ DOMAIN Y = DOMAIN GlobalClasses
    /\ \A r \in DOMAIN Y :
          /\ DOMAIN Y[r] = DOMAIN labels
          /\ \A d \in DOMAIN labels :
                Y[r][d] = (IF labels[d] = GlobalClasses[r] THEN 1 ELSE 0)
    /\ \A d \in DOMAIN labels :
          Cardinality({r \in DOMAIN Y : Y[r][d] = 1}) = 1

\* C6: the label matrices of the four splits all have one row per class of
\* the global class set in the same order (also when a split holds no
\* document of some class), one column per document, and columns summing
\* to 1.
C6_OneHotRowsAreGlobalClasses ==
    built =>
        /\ OneHotOverGlobal(y_train, train_labels)
        /\ OneHotOverGlobal(y_val, val_labels)
        /\ OneHotOverGlobal(y_test, test_labels)
        /\ OneHotOverGlobal(y_train_full, train_labels_full)

----------------------------------------------------------------------------
(* Properties of run_analysis (specification Spec)                         *)

\* the dictionaries that have the key `method`
DictsWith(method) ==
    IF method \in FactorMethods
    THEN {"acc", "A", "B", "S", "S_test", "Yhat", "iter"}
    ELSE {"acc", "Yhat"}

\* the methods run once in every trial
TrialMethods == AllMethods \ {"NB"}

CheckpointWritten == disk.acc # NoValue

\* number of trials completed so far
Completed == IF j < 0 THEN 0 ELSE j

\* C1 as stated: once a checkpoint is written, every method key, NB
\* included, holds as many entries in the persisted dictionaries as trials
\* have completed.
C1_EveryMethodCountsTrials ==
    CheckpointWritten =>
        \A method \in AllMethods : \A d \in DictsWith(method) :
            Len(disk[d][method]) = Completed

\* C1 amended: after each completed trial the persisted dictionaries hold,
\* for every method run per trial (Model3..Model6, NMF, SVM), as many
\* entries as trials have completed, and for NB exactly one entry.
C1_TrialMethodsCountTrials ==
    CheckpointWritten =>
        /\ \A method \in TrialMethods : \A d \in DictsWith(method) :
              Len(disk[d][method]) = Completed
        /\ \A d \in DictsWith("NB") : Len(disk[d]["NB"]) = 1
        /\ Completed >= 1

C1_Witness ==
    /\ CheckpointWritten
    /\ Completed = 2
    /\ Len(disk.acc["Model3"]) = 2
    /\ Len(disk.acc["NB"]) = 1

MethodFailed == failure # NoValue /\ failure.method \in AllMethods

\* the persisted dictionaries are exactly the first `n` trials of the
\* dictionaries in memory
DiskHoldsTrials(n) ==
    IF n = 0 THEN disk = NoFiles
    ELSE /\ disk.median = NoValue /\ disk.params = NoValue
         /\ \A method \in AllMethods : \A d \in DictsWith(method) :
               disk[d][method] =
                 SubSeq(Dicts[d][method], 1, IF method = "NB" THEN 1 ELSE n)

\* C3 as stated: after a method invocation has failed in trial j the
\* orchestrator goes on with the next method and trial (the run is not
\* aborted), and the checkpoint of trials 0..j-1 is intact.
C3_RunContinuesAfterFailure ==
    (MethodFailed /\ failure.trial >= 0) =>
        /\ pc # "aborted"
        /\ DiskHoldsTrials(Completed)

\* C3 amended: a method invocation that fails in trial j aborts the whole
\* run: no later method or trial runs, no checkpoint of trial j is written
\* and nothing is returned; the checkpoint of trials 0..j-1 stays as it was
\* written.
C3_FailureAbortsRun ==
    MethodFailed =>
        /\ pc = "aborted"
        /\ ~ENABLED Next
        /\ ninv = failure.inv + 1
        /\ ~returned
        /\ Completed = (IF failure.trial < 0 THEN 0 ELSE failure.trial)
        /\ DiskHoldsTrials(Completed)

C3_Witness ==
    /\ MethodFailed
    /\ failure.method = "Model5"
    /\ failure.trial = 1
    /\ Len(disk.acc["Model5"]) = 1
    /\ Len(acc_dict["Model3"]) = 2

SummaryFailed == failure # NoValue /\ failure.method = "stdev"

\* the median-index record or the configuration record is written
RecordsWritten == disk'.median # disk.median \/ disk'.params # disk.params

\* C12: with one trial the summary fails in stdev, with the checkpoint of
\* that trial on disk and unchanged, the median-index record and the
\* configuration record not written, and nothing returned; the two records
\* are written only by the summary of a run of two or more trials, both
\* together and once, when the checkpoint of the last trial is on disk.
C12_SummaryRecords ==
    [][/\ (pc = "summary" /\ iterations = 1) =>
             /\ pc' = "aborted"
             /\ SummaryFailed'
             /\ DiskHoldsTrials(1)
             /\ disk' = disk
             /\ returned' = FALSE
             /\ median_dict' = NoValue
       /\ (pc = "aborted" \/ SummaryFailed) => ~returned'
       /\ RecordsWritten =>
             /\ pc = "summary" /\ pc' = "done"
             /\ iterations >= 2
             /\ DiskHoldsTrials(iterations)
             /\ disk'.median = median_dict' /\ disk'.median # NoValue
             /\ disk'.params = ParamList
             /\ disk' = [disk EXCEPT !.median = disk'.median,
                                     !.params = disk'.params]
             /\ returned'
       /\ (pc = "summary" /\ iterations >= 2) => RecordsWritten
      ]_vars

C12_Witness ==
    /\ pc = "aborted"
    /\ SummaryFailed
    /\ iterations = 1
    /\ DiskHoldsTrials(1)
    /\ ~returned

\* the per-trial sequences of the dictionaries D agree for every method:
\* same length, and position k holds the values of one invocation, which
\* ran in trial k
Aligned(D) ==
    \A method \in AllMethods : \A d1, d2 \in DictsWith(method) :
        /\ Len(D[d1][method]) = Len(D[d2][method])
        /\ \A k \in DOMAIN D[d1][method] :
              /\ D[d1][method][k].inv = D[d2][method][k].inv
              /\ method \in TrialMethods => D[d1][method][k].trial = k - 1

\* C10: at every checkpoint and at the end of run_analysis the sequences of
\* a method have the same length in all dictionaries holding it and
\* position k comes from the one invocation of trial k; the median index is
\* a valid index into each of them, and median_results reads A, B,
\* predictions and iteration count of one and the same trial.
C10_SequencesAligned ==
    /\ CheckpointWritten => Aligned(disk)
    /\ pc \in {"save", "summary", "done"} => Aligned(Dicts)
    /\ median_dict # NoValue =>
          \A method \in MedianMethods : \A d \in DictsWith(method) :
              median_dict[method] + 1 \in DOMAIN Dicts[d][method]
    /\ report # NoValue =>
          \A method \in FactorMethods :
              /\ report[method].A.inv = report[method].B.inv
              /\ report[method].A.inv = report[method].Yhat.inv
              /\ report[method].A.inv = report[method].iter.inv
              /\ report[method].A.trial = median_dict[method]
              /\ report[method].A.val = "A" /\ report[method].B.val = "B"
              /\ report[method].Yhat.val = "Yhat"
              /\ report[method].iter.val = "iter"

C10_Witness ==
    /\ report # NoValue
    /\ iterations = 3
    /\ median_dict["Model3"] # median_dict["NMF"]

----------------------------------------------------------------------------
(* Properties of the median-trial selection (specification SpecMedian)     *)

\* C2: for an accuracy list of odd length N the selected index is one
\* argsort(acc)[N // 2] can give, it is a trial index in 0..N-1, the
\* accuracy at it is the statistical median of the list, and for the list
\* [0.70, 0.85, 0.60, 0.90, 0.75] it is 4.
C2_MedianIndexOdd ==
    (m_idx # NoIndex /\ Len(m_acc) % 2 = 1) =>
        /\ m_idx \in 0..(Len(m_acc) - 1)
        /\ \E p \in ArgsortResults(m_acc) : m_idx = p[Len(m_acc) \div 2 + 1] - 1
        /\ m_acc[m_idx + 1] = StatMedianOdd(m_acc)
        /\ m_acc = ExampleAcc => m_idx = 4

C2_Witness == m_acc = ExampleAcc /\ m_idx = 4

====
